---- MODULE Spec2Model ----
(***************************************************************************)
(* A model of the OJS statistics dashboard (KayWP/ojs-stats):              *)
(*   - validate_csv and the upload page's session state (Upload.py),       *)
(*   - the statistics pages' aggregation functions (pages/*.py),           *)
(*   - the cursor-paginated CrossRef fetch loop (fetch_crossref.py and     *)
(*     pages/Citation Information.py).                                     *)
(* Python values are tagged records, so that values of different Python    *)
(* types can be compared:  None, NaN, Num(n), Str(s), List(l), Dict(d).    *)
(***************************************************************************)
EXTENDS Integers, Sequences, FiniteSets, TLC

VARIABLES
    \* validate_csv called on its own
    v_columns, v_column_lists, v_return,
    \* the streamlit session: st.session_state, the two uploader widgets of
    \* Upload.py and what the last script run displayed
    session_state, csv_file, csv_file_geo, page,
    \* the aggregation functions called on their own
    agg_df, agg_call, agg_return,
    \* one call of fetch_all_articles
    issn, pc, all_articles, cursor, has_more, page_count, api_log, events, shown, returned, calls, prev_call,
    \* one call of a function of the citation report
    cit_arg, cit_call, cit_return,
    \* one call of fetch_all_articles of the page Citation Information
    ui_email, ui_pc, ui_all_articles, ui_cursor, ui_has_more, ui_page_count, ui_events, ui_shown,
    ui_status, ui_progress, ui_returned

valVars == <<v_columns, v_column_lists, v_return>>
sessVars == <<session_state, csv_file, csv_file_geo, page>>
aggVars == <<agg_df, agg_call, agg_return>>
fetchVars == <<issn, pc, all_articles, cursor, has_more, page_count, api_log, events, shown, returned, calls, prev_call>>
citVars == <<cit_arg, cit_call, cit_return>>
uiVars == <<ui_email, ui_pc, ui_all_articles, ui_cursor, ui_has_more, ui_page_count, ui_events,
            ui_shown, ui_status, ui_progress, ui_returned>>
vars == <<valVars, sessVars, aggVars, fetchVars, citVars, uiVars>>

----------------------------------------------------------------------------
(* Python values *)

None == [none |-> TRUE]
NaN == [nan |-> TRUE]
Num(n) == [n |-> n]
Str(s) == [s |-> s]
List(l) == [l |-> l]
Dict(d) == [d |-> d]
Bool(b) == [b |-> b]

IsNum(v) == DOMAIN v = {"n"}
IsStr(v) == DOMAIN v = {"s"}
IsList(v) == DOMAIN v = {"l"}
IsDict(v) == DOMAIN v = {"d"}
IsNaN(v) == v = NaN

\* an exception raised instead of a value
Raise(kind) == [exc |-> kind]
IsExc(v) == DOMAIN v = {"exc"}

\* the empty dict {} and the empty list []
EmptyDict == Dict(<<>>)
EmptyList == List(<<>>)

\* bool(v): Python truthiness
Truthy(v) ==
    CASE v = None -> FALSE
      [] IsNaN(v) -> TRUE
      [] DOMAIN v = {"b"} -> v.b
      [] IsNum(v) -> v.n # 0
      [] IsStr(v) -> v.s # ""
      [] IsList(v) -> Len(v.l) > 0
      [] IsDict(v) -> DOMAIN v.d # {}
      [] OTHER -> TRUE

\* d.get(key, default) on a dict d
DictGet(d, key, default) == IF key \in DOMAIN d.d THEN d.d[key] ELSE default

\* obj.get(key, default): AttributeError unless obj is a dict
Get(obj, key, default) ==
    IF IsDict(obj) THEN DictGet(obj, key, default) ELSE Raise("AttributeError")

Max(a, b) == IF a >= b THEN a ELSE b
Min(a, b) == IF a <= b THEN a ELSE b

----------------------------------------------------------------------------
(* validate_csv (Upload.py) *)

\* bounds of the inputs validate_csv is tried on
MaxHeaderLen == 2
MaxProfiles == 2

\* a == b on two Python lists of strings, with the elements out of order
\* accepted as well (the mutant of ListEq)
ListEqUnordered(a, b) ==
    /\ Len(a) = Len(b)
    /\ \A i \in 1..Len(a) : \E j \in 1..Len(b) : a[i] = b[j]
    /\ \A j \in 1..Len(b) : \E i \in 1..Len(a) : a[i] = b[j]

\* a == b on two Python lists: same length, equal element by element
ListEq(a, b) ==
    /\ Len(a) = Len(b)
    /\ \A i \in 1..Len(a) : a[i] = b[i]

RECURSIVE validate_loop(_, _, _)
validate_loop(actual_columns, column_lists, i) ==
    IF i > Len(column_lists) THEN FALSE
    ELSE IF ListEq(actual_columns, column_lists[i]) THEN TRUE
    ELSE validate_loop(actual_columns, column_lists, i + 1)

\* validate_csv(df, column_lists), df given by list(df.columns)
validate_csv(columns, column_lists) == validate_loop(columns, column_lists, 1)

articles_column_configs ==
    << <<"ID", "Title", "Total", "Abstract Views", "File Views", "PDF", "HTML", "Other">>,
       <<"ID", "Titel", "Total", "Samenvatting bekeken", "File Views", "PDF", "HTML", "Overig">> >>

geo_column_configs ==
    << <<"City", "Region", "Country", "Total", "Unique">>,
       <<"Stad", "Regio", "Land", "Total", "Unique">> >>

\* the header of the spec's Invalid scenario
ShortHeader == <<"ID", "Name", "Total">>

Labels == {"ID", "Title", "Total", "Name"}

RECURSIVE SeqsUpTo(_, _)
SeqsUpTo(S, n) ==
    IF n = 0 THEN {<<>>}
    ELSE LET shorter == SeqsUpTo(S, n - 1)
         IN  shorter \cup {Append(s, x) : s \in shorter, x \in S}

\* the headers validate_csv is tried on
Headers ==
    SeqsUpTo(Labels, MaxHeaderLen)
        \cup {articles_column_configs[1], articles_column_configs[2], ShortHeader,
              geo_column_configs[1]}

\* the profiles the profile lists are made of
Profiles ==
    {<<"ID">>, <<"ID", "Title">>, <<"Title", "ID">>, <<>>, ShortHeader,
     articles_column_configs[1], articles_column_configs[2]}

ProfileLists ==
    SeqsUpTo(Profiles, MaxProfiles) \cup {articles_column_configs, geo_column_configs}

ValIdle == v_columns = <<>> /\ v_column_lists = <<>> /\ v_return = None

ValInit ==
    /\ v_columns \in Headers
    /\ v_column_lists \in ProfileLists
    /\ v_return = None

\* a call validate_csv(df, column_lists) returns
CallValidate ==
    /\ v_return = None
    /\ v_return' = Bool(validate_csv(v_columns, v_column_lists))
    /\ UNCHANGED <<v_columns, v_column_lists>>

----------------------------------------------------------------------------
(* DataFrames and pandas.read_csv *)

\* a DataFrame: the column labels, the index labels of the rows and the rows,
\* each row a sequence of cells (Num, Str or NaN) aligned with the columns
DataFrame(columns, index, rows) == [columns |-> columns, index |-> index, rows |-> rows]

\* the RangeIndex 0..n-1 of a freshly built DataFrame
RangeIndex(n) == [i \in 1..n |-> i - 1]

HasColumn(df, col) == \E i \in 1..Len(df.columns) : df.columns[i] = col

ColIndex(df, col) == CHOOSE i \in 1..Len(df.columns) : df.columns[i] = col

\* df[col]: the cells of a column that df has (KeyError otherwise, which the
\* callers raise)
Column(df, col) == [i \in 1..Len(df.rows) |-> df.rows[i][ColIndex(df, col)]]

\* a row of fewer fields than the header is filled with NaN
PadRow(row, n) == [i \in 1..n |-> IF i <= Len(row) THEN row[i] ELSE NaN]

\* the number of leading lines Upload.py skips: skiprows=4
SkipRows == 4

\* pd.read_csv(file, skiprows=skiprows) on an uploaded file: the lines after
\* the preamble are the header and the rows
read_csv(file, skiprows) ==
    IF ~file.utf8 THEN Raise("UnicodeDecodeError")
    ELSE IF Len(file.lines) <= skiprows THEN Raise("EmptyDataError")
    ELSE LET header == file.lines[skiprows + 1]
             body == SubSeq(file.lines, skiprows + 2, Len(file.lines))
         IN  IF \E i \in 1..Len(body) : Len(body[i]) > Len(header)
             THEN Raise("ParserError")
             ELSE DataFrame(header, RangeIndex(Len(body)),
                            [i \in 1..Len(body) |-> PadRow(body[i], Len(header))])

\* str.lower() on the characters that occur in the file names
LowerChar(c) ==
    CASE c = "C" -> "c"
      [] c = "S" -> "s"
      [] c = "V" -> "v"
      [] c = "A" -> "a"
      [] OTHER -> c

Lower(name) == [i \in 1..Len(name) |-> LowerChar(name[i])]

EndsWith(name, suffix) ==
    /\ Len(name) >= Len(suffix)
    /\ SubSeq(name, Len(name) - Len(suffix) + 1, Len(name)) = suffix

DotCsv == <<".", "c", "s", "v">>

----------------------------------------------------------------------------
(* The uploaded files *)

\* the metadata preamble of an OJS report
Preamble == << <<Str("Report")>>, <<Str("Period")>>, <<Str("Journal")>>, <<>> >>

UploadedFile(name, utf8, lines) == [name |-> name, utf8 |-> utf8, lines |-> lines]

ArticleRow(id, title, total, abstract, files, pdf, html, other) ==
    <<Num(id), Str(title), total, abstract, files, pdf, html, other>>

ArticleRows ==
    << ArticleRow(1, "First", Num(9), Num(5), Num(4), Num(3), Num(1), Num(0)),
       ArticleRow(2, "Second", Num(7), Num(2), Num(5), NaN, Num(0), Num(0)) >>

ArticleFiles ==
    { \* the English report
      UploadedFile(<<"a", ".", "c", "s", "v">>, TRUE,
                   Preamble \o <<articles_column_configs[1]>> \o ArticleRows),
      \* the Dutch report, with an upper-case extension
      UploadedFile(<<"n", ".", "C", "S", "V">>, TRUE,
                   Preamble \o <<articles_column_configs[2]>> \o ArticleRows),
      \* a table that is no articles report
      UploadedFile(<<"o", ".", "c", "s", "v">>, TRUE,
                   Preamble \o <<ShortHeader>> \o << <<Num(1), Str("x"), Num(2)>> >>),
      \* the English report under a name that is no .csv
      UploadedFile(<<"a", ".", "x", "l", "s">>, TRUE,
                   Preamble \o <<articles_column_configs[1]>> \o ArticleRows),
      \* a file that ends within the preamble
      UploadedFile(<<"e", ".", "c", "s", "v">>, TRUE, SubSeq(Preamble, 1, 3)),
      \* a row of more fields than the header
      UploadedFile(<<"r", ".", "c", "s", "v">>, TRUE,
                   Preamble \o <<ShortHeader>> \o << <<Num(1), Str("x"), Num(2), Num(3)>> >>),
      \* bytes that are no UTF-8 text
      UploadedFile(<<"b", ".", "c", "s", "v">>, FALSE, <<>>) }

GeoRow(city, region, country, total, unique) ==
    <<Str(city), Str(region), country, total, unique>>

GeoRows ==
    << GeoRow("Amsterdam", "NH", Str("Netherlands"), Num(10), Num(8)),
       GeoRow("Berlin", "BE", Str("Germany"), Num(6), Num(5)),
       GeoRow("Utrecht", "UT", Str("Netherlands"), Num(4), Num(3)) >>

GeoRowsZero ==
    << GeoRow("Amsterdam", "NH", Str("Netherlands"), Num(0), Num(0)),
       GeoRow("Berlin", "BE", Str("Germany"), Num(0), Num(0)) >>

GeoFiles ==
    { \* the English report
      UploadedFile(<<"g", ".", "c", "s", "v">>, TRUE,
                   Preamble \o <<geo_column_configs[1]>> \o GeoRows),
      \* the English report of a period without visits
      UploadedFile(<<"z", ".", "c", "s", "v">>, TRUE,
                   Preamble \o <<geo_column_configs[1]>> \o GeoRowsZero),
      \* the English report without any row
      UploadedFile(<<"h", ".", "c", "s", "v">>, TRUE,
                   Preamble \o <<geo_column_configs[1]>>),
      \* the Dutch report
      UploadedFile(<<"n", ".", "C", "S", "V">>, TRUE,
                   Preamble \o <<geo_column_configs[2]>> \o GeoRows),
      \* a table that is no geographic report
      UploadedFile(<<"o", ".", "c", "s", "v">>, TRUE,
                   Preamble \o << <<"City", "Country">> >> \o << <<Str("Gent"), Str("Belgium")>> >>),
      \* the English report under a name that is no .csv
      UploadedFile(<<"g", ".", "t", "x", "t">>, TRUE,
                   Preamble \o <<geo_column_configs[1]>> \o GeoRows),
      \* bytes that are no UTF-8 text
      UploadedFile(<<"b", ".", "c", "s", "v">>, FALSE, <<>>) }

----------------------------------------------------------------------------
(* The aggregation functions of the statistics pages *)

RECURSIVE SumNums(_)
SumNums(cells) ==
    IF Len(cells) = 0 THEN 0
    ELSE (IF IsNum(Head(cells)) THEN Head(cells).n ELSE 0) + SumNums(Tail(cells))

\* Python's builtin sum() over the cells of a column: a NaN makes the sum NaN
PySum(cells) ==
    IF \E i \in 1..Len(cells) : IsStr(cells[i]) THEN Raise("TypeError")
    ELSE IF \E i \in 1..Len(cells) : IsNaN(cells[i]) THEN NaN
    ELSE Num(SumNums(cells))

\* def total_visitor_count(df): return sum(df['Total'])
total_visitor_count(df) ==
    IF ~HasColumn(df, "Total") THEN Raise("KeyError") ELSE PySum(Column(df, "Total"))

\* the rows of df whose cell in column col equals value (NaN equals nothing)
SelectRows(df, col, value) ==
    LET c == ColIndex(df, col)
        Keep(i) == df.rows[i][c] = value /\ ~IsNaN(df.rows[i][c])
        F[i \in 0..Len(df.rows)] ==
            IF i = 0 THEN <<>>
            ELSE IF Keep(i) THEN Append(F[i - 1], i) ELSE F[i - 1]
        kept == F[Len(df.rows)]
    IN  DataFrame(df.columns,
                  [k \in 1..Len(kept) |-> df.index[kept[k]]],
                  [k \in 1..Len(kept) |-> df.rows[kept[k]]])

\* def filter_visitors(df, country): sum of Unique over df[df['Country'] == country]
filter_visitors(df, country) ==
    IF ~HasColumn(df, "Country") \/ ~HasColumn(df, "Unique") THEN Raise("KeyError")
    ELSE PySum(Column(SelectRows(df, "Country", country), "Unique"))

\* Series.sort_values(ascending=False, na_position='last') with the default
\* kind='quicksort', which is not a stable sort: the orders of the positions of
\* vals it may produce. The non-null cells come in descending order, equal
\* cells in any order, and the null cells last, in their original order.
RECURSIVE DescendingOrders(_, _)
DescendingOrders(vals, S) ==
    IF S = {} THEN {<<>>}
    ELSE LET top == {i \in S : \A j \in S : vals[j].n <= vals[i].n}
         IN  UNION { {<<i>> \o rest : rest \in DescendingOrders(vals, S \ {i})} : i \in top }

RECURSIVE AscendingPositions(_)
AscendingPositions(S) ==
    IF S = {} THEN <<>>
    ELSE LET m == CHOOSE i \in S : \A j \in S : i <= j
         IN  <<m>> \o AscendingPositions(S \ {m})

\* the same with a stable sort (kind='stable'), named to compare with
RECURSIVE StableDescending(_, _)
StableDescending(vals, S) ==
    IF S = {} THEN <<>>
    ELSE LET top == {i \in S : \A j \in S : vals[j].n <= vals[i].n}
             m == CHOOSE i \in top : \A j \in top : i <= j
         IN  <<m>> \o StableDescending(vals, S \ {m})

NonNull(vals) == {i \in 1..Len(vals) : ~IsNaN(vals[i])}
Nulls(vals) == {i \in 1..Len(vals) : IsNaN(vals[i])}

sort_values_descending(vals) ==
    {order \o AscendingPositions(Nulls(vals)) : order \in DescendingOrders(vals, NonNull(vals))}

\* df.head(n) of the rows of df taken in the given order of positions
HeadInOrder(df, order, n) ==
    LET k == Min(n, Len(order))
    IN  DataFrame(df.columns,
                  [i \in 1..k |-> df.index[order[i]]],
                  [i \in 1..k |-> df.rows[order[i]]])

\* the options of st.radio on the Explore Views and Downloads page
Buttons == {"File Downloads", "Abstract views"}

\* the number of rows article_top5_downloads keeps: head(5)
TopArticles == 5

\* def article_top5_downloads(df, button): the DataFrames it may return
\* (an exception when the button names no column, or the column is missing)
article_top5_downloads(df, button) ==
    LET type == CASE button = "File Downloads" -> Str("PDF")
                  [] button = "Abstract views" -> Str("Abstract Views")
                  [] OTHER -> Raise("UnboundLocalError")
    IN  IF IsExc(type) THEN {type}
        ELSE IF ~HasColumn(df, type.s) THEN {Raise("KeyError")}
        ELSE {HeadInOrder(df, order, TopArticles) :
                 order \in sort_values_descending(Column(df, type.s))}

\* the number of countries geo_overview keeps: head(10)
TopCountries == 10

\* the alphabetical order of the country names, which groupby sorts its keys by
Collation ==
    <<"Austria", "Belgium", "Canada", "Denmark", "Estonia", "France", "Germany",
      "Hungary", "Italy", "Japan", "Kenya", "Latvia", "Mexico", "Netherlands">>

CollationRank(name) == CHOOSE i \in 1..Len(Collation) : Collation[i] = name

\* df.groupby('Country')['Unique'].sum().reset_index(): one row per distinct
\* non-null Country, in the order of the keys, with the sum of the non-null
\* Unique cells of its rows
groupby_sum(df) ==
    LET country == Column(df, "Country")
        unique == Column(df, "Unique")
        keys == {country[i].s : i \in NonNull(country)}
        RECURSIVE Sorted(_)
        Sorted(K) ==
            IF K = {} THEN <<>>
            ELSE LET m == CHOOSE k \in K : \A o \in K : CollationRank(k) <= CollationRank(o)
                 IN  <<m>> \o Sorted(K \ {m})
        order == Sorted(keys)
        Members(k) == {i \in 1..Len(country) : country[i] = Str(k)}
        RECURSIVE SumOver(_)
        SumOver(S) ==
            IF S = {} THEN 0
            ELSE LET i == CHOOSE x \in S : TRUE
                 IN  (IF IsNum(unique[i]) THEN unique[i].n ELSE 0) + SumOver(S \ {i})
    IN  DataFrame(<<"Country", "Unique">>, RangeIndex(Len(order)),
                  [g \in 1..Len(order) |-> <<Str(order[g]), Num(SumOver(Members(order[g])))>>])

\* geo_overview without its sort_values: the first groups in the order of
\* their keys (the mutant of geo_overview)
geo_overview_unsorted(df) ==
    IF ~HasColumn(df, "Country") \/ ~HasColumn(df, "Unique") THEN {Raise("KeyError")}
    ELSE LET result == groupby_sum(df)
         IN  {HeadInOrder(result, [i \in 1..Len(result.rows) |-> i], TopCountries)}

\* def geo_overview(df): the DataFrames it may return
geo_overview(df) ==
    IF ~HasColumn(df, "Country") \/ ~HasColumn(df, "Unique") THEN {Raise("KeyError")}
    ELSE LET result == groupby_sum(df)
         IN  {HeadInOrder(result, order, TopCountries) :
                 order \in sort_values_descending(Column(result, "Unique"))}

\* ROUND_HALF_EVEN of a / b for a >= 0 and b > 0
RoundHalfEven(a, b) ==
    LET q == a \div b
        r == a % b
    IN  IF 2 * r < b THEN q
        ELSE IF 2 * r > b THEN q + 1
        ELSE IF q % 2 = 0 THEN q ELSE q + 1

\* round((number / total_unique) * 100, 2) on two Python numbers, the result
\* counted in hundredths of a percent; dividing by zero raises, NaN spreads
percentage(number, total_unique) ==
    IF IsNaN(number) \/ IsNaN(total_unique) THEN NaN
    ELSE IF total_unique.n = 0 THEN Raise("ZeroDivisionError")
    ELSE Num(RoundHalfEven(10000 * number.n, total_unique.n))

----------------------------------------------------------------------------
(* The upload page (Upload.py) and st.session_state *)

\* st.session_state is a dict from keys to values
Put(d, key, value) == [k \in DOMAIN d \cup {key} |-> IF k = key THEN value ELSE d[k]]

SetDefault(d, key, value) == IF key \in DOMAIN d THEN d ELSE Put(d, key, value)

\* if 'df' not in st.session_state: st.session_state.df = None, and so on
InitSessionState(ss) ==
    SetDefault(SetDefault(SetDefault(SetDefault(ss, "df", None), "df_valid", FALSE),
                          "geodf", None), "geodf_valid", FALSE)

\* the handler of one uploader, were it to clear the cached dataset when it
\* rejects a file (the mutant of UploadHandler)
UploadHandlerClearing(ss, file, key, valid_key, column_configs) ==
    IF file = None THEN [ss |-> ss, msgs |-> {}]
    ELSE IF ~EndsWith(Lower(file.name), DotCsv)
    THEN [ss |-> Put(ss, key, None), msgs |-> {<<key, "error: not a CSV file">>}]
    ELSE LET parsed == read_csv(file, SkipRows)
         IN  IF IsExc(parsed)
             THEN [ss |-> Put(ss, key, None), msgs |-> {<<key, "error: reading CSV file">>}]
             ELSE IF validate_csv(parsed.columns, column_configs)
             THEN [ss |-> Put(Put(ss, key, parsed), valid_key, TRUE),
                   msgs |-> {<<key, "success">>}]
             ELSE [ss |-> Put(ss, key, parsed), msgs |-> {<<key, "warning: not an OJS report">>}]

\* the handler of one uploader: `if csv_file is not None: ...`. The dataset is
\* cached as soon as it is parsed; the flag is only ever set to True.
UploadHandler(ss, file, key, valid_key, column_configs) ==
    IF file = None THEN [ss |-> ss, msgs |-> {}]
    ELSE IF ~EndsWith(Lower(file.name), DotCsv)
    THEN [ss |-> ss, msgs |-> {<<key, "error: not a CSV file">>}]
    ELSE LET parsed == read_csv(file, SkipRows)
         IN  IF IsExc(parsed)
             THEN [ss |-> ss, msgs |-> {<<key, "error: reading CSV file">>}]
             ELSE IF validate_csv(parsed.columns, column_configs)
             THEN [ss |-> Put(Put(ss, key, parsed), valid_key, TRUE),
                   msgs |-> {<<key, "success">>}]
             ELSE [ss |-> Put(ss, key, parsed), msgs |-> {<<key, "warning: not an OJS report">>}]

ArticlesHandler(ss, file) == UploadHandler(ss, file, "df", "df_valid", articles_column_configs)

GeoHandler(ss, file) == UploadHandler(ss, file, "geodf", "geodf_valid", geo_column_configs)

\* one run of the script Upload.py with the uploaders holding the files a and g
UploadScript(ss, a, g) ==
    LET articles == ArticlesHandler(InitSessionState(ss), a)
        geo == GeoHandler(articles.ss, g)
    IN  [ss |-> geo.ss, msgs |-> articles.msgs \cup geo.msgs]

NoPage == [name |-> "none"]

SessInit ==
    /\ session_state = <<>>
    /\ csv_file = None
    /\ csv_file_geo = None
    /\ page = NoPage

\* The user opens the upload page, or changes the file one of its uploaders
\* holds, and streamlit runs Upload.py from top to bottom.
UploadPage(a, g) ==
    /\ \/ a = None /\ g = None
       \/ page.name = "Upload" /\ (a = csv_file \/ g = csv_file_geo)
    /\ LET run == UploadScript(session_state, a, g)
       IN  /\ session_state' = run.ss
           /\ page' = [name |-> "Upload", msgs |-> run.msgs]
    /\ csv_file' = a
    /\ csv_file_geo' = g

\* sorted(list(set(geo_df['Country']))): TypeError when a NaN is compared
\* with a string
unique_countries(df) ==
    IF ~HasColumn(df, "Country") THEN Raise("KeyError")
    ELSE LET country == Column(df, "Country")
         IN  IF Nulls(country) # {} /\ NonNull(country) # {} THEN Raise("TypeError")
             ELSE [countries |-> {country[i] : i \in 1..Len(country)}]

\* what the Visitor Statistics page displays
VisitorDisplay(branch, total_unique, option, number, pct, top, exc) ==
    [name |-> "Visitor Statistics", branch |-> branch, total_unique |-> total_unique,
     option |-> option, number |-> number, percentage |-> pct, top_countries |-> top,
     exc |-> exc]

\* top_countries['Percentage'] = round((top_countries['Unique'] / total_unique) * 100, 2)
\* (numpy division: no exception; total_unique is not 0 when this line is reached)
WithPercentage(top, total_unique) ==
    DataFrame(top.columns \o <<"Percentage">>, top.index,
              [i \in 1..Len(top.rows) |->
                  Append(top.rows[i], percentage(top.rows[i][2], total_unique))])

\* one run of the script pages/Visitor Statistics.py, the user having picked
\* `option` in the selectbox and the sort having produced `top`
VisitorScript(ss, option, top) ==
    IF ~("geodf" \in DOMAIN ss /\ (IF "geodf_valid" \in DOMAIN ss THEN ss["geodf_valid"] ELSE TRUE))
    THEN VisitorDisplay("warning", None, None, None, None, None, None)
    ELSE LET geo_df == ss["geodf"]
         IN  IF geo_df = None
             THEN VisitorDisplay("stats", None, None, None, None, None, Raise("TypeError"))
             ELSE
             LET total_unique == total_visitor_count(geo_df)
                 number == filter_visitors(geo_df, option)
                 pct == percentage(number, total_unique)
             IN  IF IsExc(total_unique)
                 THEN VisitorDisplay("stats", None, None, None, None, None, total_unique)
                 ELSE IF IsExc(unique_countries(geo_df))
                 THEN VisitorDisplay("stats", total_unique, None, None, None, None,
                                     unique_countries(geo_df))
                 ELSE IF IsExc(number)
                 THEN VisitorDisplay("stats", total_unique, option, None, None, None, number)
                 ELSE IF IsExc(pct)
                 THEN VisitorDisplay("stats", total_unique, option, number, None, None, pct)
                 ELSE IF IsExc(top)
                 THEN VisitorDisplay("stats", total_unique, option, number, pct, None, top)
                 ELSE VisitorDisplay("stats", total_unique, option, number, pct,
                                     WithPercentage(top, total_unique), None)

\* the options of the selectbox: the countries of the dataset, None without any
Options(ss) ==
    IF "geodf" \notin DOMAIN ss \/ ss["geodf"] = None THEN {None}
    ELSE LET c == unique_countries(ss["geodf"])
         IN  IF IsExc(c) THEN {None}
             ELSE IF c.countries = {} THEN {None} ELSE c.countries

TopChoices(ss) ==
    IF "geodf" \notin DOMAIN ss \/ ss["geodf"] = None THEN {None}
    ELSE geo_overview(ss["geodf"])

\* The user opens the Visitor Statistics page or picks a country on it.
VisitorStatisticsPage ==
    /\ \E option \in Options(session_state), top \in TopChoices(session_state) :
          page' = VisitorScript(session_state, option, top)
    /\ csv_file' = None
    /\ csv_file_geo' = None
    /\ UNCHANGED session_state

\* what the Explore Views and Downloads page displays
ExploreDisplay(branch, type, top5_df, exc) ==
    [name |-> "Explore Views and Downloads", branch |-> branch, type |-> type,
     top5_df |-> top5_df, exc |-> exc]

\* one run of the script pages/Explore Views and Downloads.py, the user having
\* picked `type` with the radio buttons and the sort having produced `top5`
\* (the insights under the table read the sorted column of top5_df again)
ExploreScript(ss, type, top5) ==
    IF ~("df" \in DOMAIN ss /\ ss["df"] # None)
    THEN ExploreDisplay("warning", None, None, None)
    ELSE IF IsExc(top5) THEN ExploreDisplay("stats", type, None, top5)
    ELSE ExploreDisplay("stats", type, top5, None)

\* what article_top5_downloads may return on the cached dataset
Top5Choices(ss, type) ==
    IF "df" \notin DOMAIN ss \/ ss["df"] = None THEN {None}
    ELSE article_top5_downloads(ss["df"], type)

\* The user opens the Explore Views and Downloads page or picks a metric on it.
ExploreViewsAndDownloadsPage ==
    /\ \E type \in Buttons :
          \E top5 \in Top5Choices(session_state, type) :
             page' = ExploreScript(session_state, type, top5)
    /\ csv_file' = None
    /\ csv_file_geo' = None
    /\ UNCHANGED session_state

\* one run of the script pages/Upload.py with its uploader holding the file a:
\* the file is parsed and cached, whatever its name and its header; an
\* exception of read_csv ends the run
LegacyUploadScript(ss, a) ==
    LET init == SetDefault(ss, "df", None)
        parsed == read_csv(a, SkipRows)
    IN  IF a = None THEN [ss |-> init, msgs |-> {}]
        ELSE IF IsExc(parsed) THEN [ss |-> init, msgs |-> {<<"df", "exception">>}]
        ELSE [ss |-> Put(init, "df", parsed), msgs |-> {<<"df", "success">>}]

\* The user opens the page pages/Upload.py, or gives its uploader a file.
LegacyUploadPage(a) ==
    /\ a = None \/ page.name = "pages/Upload"
    /\ LET run == LegacyUploadScript(session_state, a)
       IN  /\ session_state' = run.ss
           /\ page' = [name |-> "pages/Upload", msgs |-> run.msgs]
    /\ csv_file' = None
    /\ csv_file_geo' = None

SessIdle == SessInit

----------------------------------------------------------------------------
(* The CrossRef API, as the fetch loop sees it *)

\* the body of a response that is no JSON document
NotJson == [notjson |-> TRUE]

\* requests.get raising ConnectionError instead of returning a response
ConnectionError == [connection |-> FALSE]

Response(status, body) == [status |-> status, body |-> body]

DateParts(year) == Dict("date-parts" :> List(<<List(<<Num(year), Num(5)>>)>>))

\* raw items of the API
ItemFull ==
    Dict(("DOI" :> Str("10.1/full")) @@ ("title" :> List(<<Str("Full"), Str("Subtitle")>>))
         @@ ("is-referenced-by-count" :> Num(3)) @@ ("published-print" :> DateParts(2020))
         @@ ("published-online" :> DateParts(2019)))

ItemBare ==
    Dict(("DOI" :> Str("10.1/bare")) @@ ("title" :> Str("Bare"))
         @@ ("published-online" :> DateParts(2018)))

ItemPlain == Dict(("DOI" :> Str("10.1/plain")) @@ ("title" :> EmptyList))

\* an item that is no JSON object
ItemNoObject == Str("oops")

\* an item whose published-print is null
ItemNullDate == Dict(("DOI" :> Str("10.1/null")) @@ ("published-print" :> None))

\* the page size the loop asks for: "rows": "1000"
PageRows == 1000

\* the size of the last page of the spec's two-page scenario
LastPageRows == 200

\* n distinct well-formed items
ManyItems(n, tag) ==
    [i \in 1..n |-> Dict(("DOI" :> Str(tag \o ToString(i))) @@ ("title" :> List(<<Str("T")>>))
                         @@ ("is-referenced-by-count" :> Num(i % 7)))]

\* the item lists of the small pages
SmallItemLists ==
    { <<>>, <<ItemFull>>, <<ItemBare, ItemPlain>>, <<ItemFull, ItemBare, ItemFull>>,
      <<ItemNoObject>>, <<ItemFull, ItemNoObject, ItemBare>>, <<ItemBare, ItemNullDate>> }

\* a page without a next-cursor field
Absent == [absent |-> TRUE]

\* the message of a page: its items and, when given, its next cursor
Message(items, next) ==
    IF next = Absent THEN Dict("items" :> List(items))
    ELSE Dict(("items" :> List(items)) @@ ("next-cursor" :> next))

Page(items, next) == Response(200, Dict("message" :> Message(items, next)))

NextCursors == {Absent, None, Str(""), Str("abc")}

\* responses that are no page of items
OddResponses ==
    { ConnectionError,
      Response(500, NotJson),
      Response(404, Dict("message" :> Message(<<ItemFull>>, Str("abc")))),
      Response(200, NotJson),
      Response(200, List(<<>>)),
      Response(200, EmptyDict),
      Response(200, Dict("message" :> None)),
      Response(200, Dict("message" :> Dict(("items" :> None) @@ ("next-cursor" :> Str("abc"))))),
      Response(200, Dict("message" :> Dict("next-cursor" :> Str("abc")))) }

SmallResponses ==
    {Page(items, next) : items \in SmallItemLists, next \in NextCursors} \cup OddResponses

\* the two pages of the spec's scenario: a full page with the cursor "abc",
\* then a last page with an empty cursor
ScenarioPage1 == Page(ManyItems(PageRows, "10.2/a"), Str("abc"))
ScenarioPage2 == Page(ManyItems(LastPageRows, "10.2/b"), Str(""))

\* a page whose cursor differs from the cursor of the other pages
OtherCursorPage == Page(<<ItemBare>>, Str("def"))

Responses == SmallResponses \cup {ScenarioPage1, ScenarioPage2, OtherCursorPage}

\* The responses the API may give to the next request of a run, after the
\* responses of log: any response of the small ones to any request; the full
\* page of the scenario to the first request only, and after it the two
\* endings of the scenario, its last page or a status 500.
Answers(log) ==
    IF log = <<>> THEN Responses \ {ScenarioPage2}
    ELSE IF Head(log) = ScenarioPage1 THEN {ScenarioPage2, Response(500, NotJson)}
    ELSE Responses \ {ScenarioPage1, ScenarioPage2}

----------------------------------------------------------------------------
(* fetch_all_articles (fetch_crossref.py) *)

\* the number of pages a run is followed for
MaxPages == 3

\* the number of calls of fetch_all_articles a session is followed for
MaxCalls == 2

\* v[0] on a Python value
Index0(v) ==
    IF IsList(v) /\ Len(v.l) > 0 THEN v.l[1]
    ELSE IF IsList(v) THEN Raise("IndexError")
    ELSE IF IsDict(v) THEN Raise("KeyError")
    ELSE Raise("TypeError")

\* get_title without its test for a bare string (the mutant of get_title)
get_title_of_lists(article) ==
    LET title == Get(article, "title", EmptyList)
    IN  IF IsExc(title) THEN title
        ELSE IF IsList(title) /\ Truthy(title) THEN title.l[1]
        ELSE Str("No title available")

\* def get_title(article)
get_title(article) ==
    LET title == Get(article, "title", EmptyList)
    IN  IF IsExc(title) THEN title
        ELSE IF IsList(title) /\ Truthy(title) THEN title.l[1]
        ELSE IF IsStr(title) THEN title
        ELSE Str("No title available")

\* one turn of the loop of get_published_year: the year of a date field, None
\* when the field yields nothing, or the exception raised
YearOf(article, date_field) ==
    LET date_info == Get(article, date_field, EmptyDict)
        date_parts == Get(date_info, "date-parts", EmptyList)
    IN  IF IsExc(date_info) THEN date_info
        ELSE IF IsExc(date_parts) THEN date_parts
        ELSE IF ~Truthy(date_parts) THEN [nothing |-> TRUE]
        ELSE IF IsExc(Index0(date_parts)) THEN Index0(date_parts)
        ELSE IF ~Truthy(Index0(date_parts)) THEN [nothing |-> TRUE]
        ELSE Index0(Index0(date_parts))

\* def get_published_year(article)
get_published_year(article) ==
    LET print == YearOf(article, "published-print")
        online == YearOf(article, "published-online")
    IN  IF print # [nothing |-> TRUE] THEN print
        ELSE IF online # [nothing |-> TRUE] THEN online
        ELSE None

\* the record fetch_all_articles makes of an item, or the exception raised
processed_article(article) ==
    LET doi == Get(article, "DOI", Str(""))
        title == get_title(article)
        citation_count == Get(article, "is-referenced-by-count", Num(0))
        published_year == get_published_year(article)
    IN  IF IsExc(doi) THEN doi
        ELSE IF IsExc(title) THEN title
        ELSE IF IsExc(citation_count) THEN citation_count
        ELSE IF IsExc(published_year) THEN published_year
        ELSE [doi |-> doi, title |-> title, citation_count |-> citation_count,
              published_year |-> published_year]

\* the parameters of a request, the cursor never moved on from "*" (the
\* mutant of Params)
ParamsFirstCursor(id, cur) ==
    [filter |-> <<"issn:", id>>, rows |-> "1000", cursor |-> Str("*"),
     select |-> "DOI,title,is-referenced-by-count,published-print,published-online"]

\* the parameters of a request
Params(id, cur) ==
    [filter |-> <<"issn:", id>>, rows |-> "1000", cursor |-> cur,
     select |-> "DOI,title,is-referenced-by-count,published-print,published-online"]

\* the exception that response.raise_for_status() and response.json() raise
\* for a response, None when there is none
ResponseError(response) ==
    IF response = ConnectionError THEN Raise("ConnectionError")
    ELSE IF response.status >= 400 THEN Raise("HTTPError")
    ELSE IF response.body = NotJson THEN Raise("JSONDecodeError")
    ELSE None

\* the items the loop `for article in items` runs through, or the exception
Iterate(items) ==
    IF IsList(items) THEN items
    ELSE IF (IsStr(items) \/ IsDict(items)) /\ ~Truthy(items) THEN EmptyList
    ELSE IF IsStr(items) \/ IsDict(items) THEN Raise("AttributeError")
    ELSE Raise("TypeError")

\* has_more = cursor, the test of the page's items forgotten (the mutant of
\* CursorAndItems)
CursorOnly(cur, n) == cur

\* has_more = cursor and len(items) > 0
CursorAndItems(cur, n) == IF Truthy(cur) THEN Bool(n > 0) ELSE cur

\* time.sleep(1) after every page, the last one too (the mutant of Sleeps)
SleepsAlways(more) == TRUE

\* if has_more: time.sleep(1)
Sleeps(more) == Truthy(more)

\* the exceptions that are a requests.exceptions.RequestException
RequestExceptions == {"ConnectionError", "HTTPError"}

\* the other exceptions the try block raises, each a subclass of Exception
\* (the JSONDecodeError of response.json() is one or the other, by the
\* version of requests)
OtherExceptions == {"JSONDecodeError", "AttributeError", "TypeError", "KeyError", "IndexError"}

\* the loop with its first except clause only (the mutant of Caught)
CaughtRequestOnly(exc) == exc.exc \in RequestExceptions

\* except requests.exceptions.RequestException ... except Exception ...:
\* whether one of the except clauses catches the exception
Caught(exc) == exc.exc \in RequestExceptions \/ exc.exc \in OtherExceptions

\* the except clauses leaving has_more as it is (the mutant of
\* HasMoreAfterError)
HasMoreKept(exc) == Bool(TRUE)

\* has_more = False in both except clauses
HasMoreAfterError(exc) == Bool(FALSE)

\* The body of the try block for one response and the except clause that
\* follows it: the records appended, the new cursor and has_more, whether the
\* loop sleeps, and the exception that ended the block (None when it ran to
\* its end).
TryBlock(response, articles, cur) ==
    LET failed(exc, acc) ==
            [all_articles |-> acc, cursor |-> cur, has_more |-> HasMoreAfterError(exc),
             sleep |-> FALSE, exc |-> exc]
        data == response.body
        message == Get(data, "message", EmptyDict)
        items == Get(message, "items", EmptyList)
        iter == Iterate(items)
        seq == iter.l
        bad == {i \in 1..Len(seq) : IsExc(processed_article(seq[i]))}
        stop == IF bad = {} THEN Len(seq) + 1 ELSE CHOOSE i \in bad : \A j \in bad : i <= j
        acc == articles \o [i \in 1..(stop - 1) |-> processed_article(seq[i])]
        next == Get(message, "next-cursor", None)
        more == CursorAndItems(next, Len(seq))
    IN  IF ResponseError(response) # None THEN failed(ResponseError(response), articles)
        ELSE IF IsExc(message) THEN failed(message, articles)
        ELSE IF IsExc(items) THEN failed(items, articles)
        ELSE IF IsExc(iter) THEN failed(iter, articles)
        ELSE IF bad # {} THEN failed(processed_article(seq[stop]), acc)
        ELSE [all_articles |-> acc, cursor |-> next, has_more |-> more,
              sleep |-> Sleeps(more), exc |-> None]

NoCall == [none |-> TRUE]

\* the state at the entry of fetch_all_articles(issn)
Entry ==
    /\ pc = "loop"
    /\ all_articles = <<>>
    /\ cursor = Str("*")
    /\ has_more = Bool(TRUE)
    /\ page_count = 0
    /\ api_log = <<>>
    /\ events = <<>>
    /\ shown = <<>>
    /\ returned = None

FetchInit ==
    /\ issn \in {"0167-9228", "1234-5678"}
    /\ Entry
    /\ calls = 1
    /\ prev_call = NoCall

\* an exception that no except clause catches leaves the function
Escapes(exc) == IF exc = None THEN FALSE ELSE ~Caught(exc)

\* One turn of `while has_more`: the request, the response of the API, the
\* try block and its except clauses, and the sleep before the next turn. An
\* exception that no except clause catches leaves the function.
FetchPage(response) ==
    /\ pc = "loop"
    /\ Truthy(has_more)
    /\ page_count < MaxPages
    /\ \E turn \in {TryBlock(response, all_articles, cursor)} :
          \E escapes \in {Escapes(turn.exc)} :
             /\ all_articles' = turn.all_articles
             /\ cursor' = turn.cursor
             /\ has_more' = IF escapes THEN has_more ELSE turn.has_more
             /\ events' = events \o <<[e |-> "get", params |-> Params(issn, cursor)]>>
                                 \o (IF turn.sleep THEN <<[e |-> "sleep", seconds |-> 1]>>
                                     ELSE <<>>)
             /\ shown' = IF turn.exc = None \/ escapes THEN shown
                         ELSE Append(shown, [page |-> page_count + 1, error |-> turn.exc])
             /\ pc' = IF escapes THEN "raised" ELSE pc
    /\ page_count' = page_count + 1
    /\ api_log' = Append(api_log, response)
    /\ UNCHANGED <<issn, returned, calls, prev_call>>

\* a run has failed when an except clause has run
Failed == shown # <<>>

\* the function returning nothing of what it gathered when a page failed
\* (the mutant of Return)
ReturnDiscarding ==
    /\ pc = "loop"
    /\ ~Truthy(has_more)
    /\ pc' = "returned"
    /\ returned' = IF Failed THEN <<>> ELSE all_articles
    /\ UNCHANGED <<issn, all_articles, cursor, has_more, page_count, api_log, events, shown,
                   calls, prev_call>>

\* `while has_more` ends and the function returns all_articles
Return ==
    /\ pc = "loop"
    /\ ~Truthy(has_more)
    /\ pc' = "returned"
    /\ returned' = all_articles
    /\ UNCHANGED <<issn, all_articles, cursor, has_more, page_count, api_log, events, shown,
                   calls, prev_call>>

\* The caller calls fetch_all_articles once more; what the call before gave
\* it is kept to compare with.
CallAgain ==
    /\ pc = "returned"
    /\ calls < MaxCalls
    /\ calls' = calls + 1
    /\ prev_call' = [returned |-> returned, failed |-> Failed]
    /\ pc' = "loop"
    /\ all_articles' = <<>>
    /\ cursor' = Str("*")
    /\ has_more' = Bool(TRUE)
    /\ page_count' = 0
    /\ api_log' = <<>>
    /\ events' = <<>>
    /\ shown' = <<>>
    /\ returned' = None
    /\ UNCHANGED issn

FetchIdle ==
    /\ issn = "" /\ pc = "idle" /\ all_articles = <<>> /\ cursor = None /\ has_more = None
    /\ page_count = 0 /\ api_log = <<>> /\ events = <<>> /\ shown = <<>> /\ returned = None
    /\ calls = 0 /\ prev_call = NoCall

----------------------------------------------------------------------------
(* fetch_all_articles of the page (pages/Citation Information.py) *)

\* the e-mail addresses the user of the page may give; the first is YOUR_EMAIL
\* of fetch_crossref.py
Emails == {"info@openjournals.nl", "editor@example.org"}

\* HEADERS of fetch_crossref.py
HEADERS == [UserAgent |-> <<"JournalCitationCounter/1.0", "info@openjournals.nl">>]

\* def get_headers(email, app_name="JournalCitationCounter/1.0")
get_headers(email) == [UserAgent |-> <<"JournalCitationCounter/1.0", email>>]

\* def get_title(article) of the page
ui_get_title(article) ==
    LET title == Get(article, "title", EmptyList)
    IN  IF IsExc(title) THEN title
        ELSE IF IsList(title) /\ Truthy(title) THEN title.l[1]
        ELSE IF IsStr(title) THEN title
        ELSE Str("No title available")

\* def get_published_year(article) of the page: the first of published-print
\* and published-online whose date-parts and date-parts[0] are truthy
ui_get_published_year(article) ==
    LET Field(date_field) ==
            LET date_info == Get(article, date_field, EmptyDict)
                date_parts == Get(date_info, "date-parts", EmptyList)
            IN  IF IsExc(date_info) THEN date_info
                ELSE IF IsExc(date_parts) THEN date_parts
                ELSE IF ~Truthy(date_parts) THEN Absent
                ELSE IF IsExc(Index0(date_parts)) THEN Index0(date_parts)
                ELSE IF ~Truthy(Index0(date_parts)) THEN Absent
                ELSE Index0(Index0(date_parts))
    IN  IF Field("published-print") # Absent THEN Field("published-print")
        ELSE IF Field("published-online") # Absent THEN Field("published-online")
        ELSE None

\* the record the page's loop makes of an item, or the exception raised
ui_processed_article(article) ==
    LET doi == Get(article, "DOI", Str(""))
        title == ui_get_title(article)
        citation_count == Get(article, "is-referenced-by-count", Num(0))
        published_year == ui_get_published_year(article)
    IN  IF IsExc(doi) THEN doi
        ELSE IF IsExc(title) THEN title
        ELSE IF IsExc(citation_count) THEN citation_count
        ELSE IF IsExc(published_year) THEN published_year
        ELSE [doi |-> doi, title |-> title, citation_count |-> citation_count,
              published_year |-> published_year]

\* the parameters of a request of the page
UiParams(id, cur) ==
    [filter |-> <<"issn:", id>>, rows |-> "1000", cursor |-> cur,
     select |-> "DOI,title,is-referenced-by-count,published-print,published-online"]

\* has_more = cursor, the test of the page's items forgotten (the mutant of
\* UiCursorAndItems)
UiCursorOnly(cur, n) == cur

\* has_more = cursor and len(items) > 0, in the page
UiCursorAndItems(cur, n) == IF Truthy(cur) THEN Bool(n > 0) ELSE cur

\* progress_bar.progress(min(page_count / 10, 1.0)), in tenths
Progress(count) == IF count < 10 THEN count ELSE 10

\* The body of the page's try block for one response, on its page_count-th
\* turn, and the except clause that follows it: the records appended, the new
\* cursor and has_more, the progress shown (None when the block fails before
\* it), whether the loop sleeps, and the exception that ended the block.
UiTryBlock(response, articles, cur, count) ==
    LET failed(exc, acc) ==
            [all_articles |-> acc, cursor |-> cur, has_more |-> Bool(FALSE),
             progress |-> None, sleep |-> FALSE, exc |-> exc]
        data == response.body
        message == Get(data, "message", EmptyDict)
        items == Get(message, "items", EmptyList)
        iter == Iterate(items)
        seq == iter.l
        bad == {i \in 1..Len(seq) : IsExc(ui_processed_article(seq[i]))}
        stop == IF bad = {} THEN Len(seq) + 1 ELSE CHOOSE i \in bad : \A j \in bad : i <= j
        acc == articles \o [i \in 1..(stop - 1) |-> ui_processed_article(seq[i])]
        next == Get(message, "next-cursor", None)
        more == UiCursorAndItems(next, Len(seq))
    IN  IF ResponseError(response) # None THEN failed(ResponseError(response), articles)
        ELSE IF IsExc(message) THEN failed(message, articles)
        ELSE IF IsExc(items) THEN failed(items, articles)
        ELSE IF IsExc(iter) THEN failed(iter, articles)
        ELSE IF bad # {} THEN failed(ui_processed_article(seq[stop]), acc)
        ELSE [all_articles |-> acc, cursor |-> next, has_more |-> more,
              progress |-> Num(Progress(count)), sleep |-> Truthy(more), exc |-> None]

\* the state at the entry of the page's fetch_all_articles(issn, email, ...)
UiEntry ==
    /\ ui_email \in Emails
    /\ ui_pc = "loop"
    /\ ui_all_articles = <<>>
    /\ ui_cursor = Str("*")
    /\ ui_has_more = Bool(TRUE)
    /\ ui_page_count = 0
    /\ ui_events = <<>>
    /\ ui_shown = <<>>
    /\ ui_status = None
    /\ ui_progress = None
    /\ ui_returned = None

UiIdle ==
    /\ ui_email = "" /\ ui_pc = "idle" /\ ui_all_articles = <<>> /\ ui_cursor = None
    /\ ui_has_more = None /\ ui_page_count = 0 /\ ui_events = <<>> /\ ui_shown = <<>>
    /\ ui_status = None /\ ui_progress = None /\ ui_returned = None

UiLoops == ui_pc = "loop" /\ Truthy(ui_has_more) /\ ui_page_count < MaxPages

\* One turn of `while has_more` of the page: the status text, the request,
\* the try block and its except clauses (st.error), the progress bar and the
\* sleep before the next turn.
UiFetchPage(response) ==
    /\ UiLoops
    /\ \E turn \in {UiTryBlock(response, ui_all_articles, ui_cursor, ui_page_count + 1)} :
          \E escapes \in {Escapes(turn.exc)} :
             /\ ui_all_articles' = turn.all_articles
             /\ ui_cursor' = turn.cursor
             /\ ui_has_more' = IF escapes THEN ui_has_more ELSE turn.has_more
             /\ ui_events' = ui_events
                                \o <<[e |-> "get", headers |-> get_headers(ui_email),
                                      params |-> UiParams(issn, ui_cursor)]>>
                                \o (IF turn.sleep THEN <<[e |-> "sleep", seconds |-> 1]>>
                                    ELSE <<>>)
             /\ ui_shown' = IF turn.exc = None \/ escapes THEN ui_shown
                            ELSE Append(ui_shown, [page |-> ui_page_count + 1, error |-> turn.exc])
             /\ ui_progress' = IF turn.progress = None THEN ui_progress ELSE turn.progress
             /\ ui_pc' = IF escapes THEN "raised" ELSE ui_pc
    /\ ui_page_count' = ui_page_count + 1
    /\ ui_status' = Num(ui_page_count + 1)
    /\ UNCHANGED <<ui_email, ui_returned>>

\* `while has_more` of the page ends and the function returns all_articles
UiReturn ==
    /\ ui_pc = "loop"
    /\ ~Truthy(ui_has_more)
    /\ ui_pc' = "returned"
    /\ ui_returned' = ui_all_articles
    /\ UNCHANGED <<ui_email, ui_all_articles, ui_cursor, ui_has_more, ui_page_count, ui_events,
                   ui_shown, ui_status, ui_progress>>

\* The two functions are called with the same ISSN and the API gives both the
\* same response to their n-th request: each loop that is still running takes
\* its next turn on the response.
BothFetchPage(response) ==
    /\ (pc = "loop" /\ Truthy(has_more) /\ page_count < MaxPages) \/ UiLoops
    /\ IF pc = "loop" /\ Truthy(has_more) /\ page_count < MaxPages
       THEN FetchPage(response)
       ELSE UNCHANGED fetchVars
    /\ IF UiLoops THEN UiFetchPage(response) ELSE UNCHANGED uiVars

----------------------------------------------------------------------------
(* The citation report (generate_report, the charts of Citation Information) *)

\* a citation record, as fetch_all_articles makes it
Record(doi, title, count, year) ==
    [doi |-> Str(doi), title |-> Str(title), citation_count |-> Num(count),
     published_year |-> year]

\* the keys of citation_ranges, in the order of their declaration
RangeNames ==
    <<"0 citations", "1-5 citations", "6-10 citations", "11-20 citations",
      "21-50 citations", "51+ citations">>

\* the chain of tests with the bounds one too low: count < 5, count < 10, ...
\* (the mutant of RangeOf)
RangeOfStrict(count) ==
    IF ~IsNum(count) THEN Raise("TypeError")
    ELSE IF count.n = 0 THEN "0 citations"
    ELSE IF count.n < 5 THEN "1-5 citations"
    ELSE IF count.n < 10 THEN "6-10 citations"
    ELSE IF count.n < 20 THEN "11-20 citations"
    ELSE IF count.n < 50 THEN "21-50 citations"
    ELSE "51+ citations"

\* if count == 0: ... elif count <= 5: ... else: the key that is counted up
\* (comparing None or a string with a number raises TypeError)
RangeOf(count) ==
    IF ~IsNum(count) THEN Raise("TypeError")
    ELSE IF count.n = 0 THEN "0 citations"
    ELSE IF count.n <= 5 THEN "1-5 citations"
    ELSE IF count.n <= 10 THEN "6-10 citations"
    ELSE IF count.n <= 20 THEN "11-20 citations"
    ELSE IF count.n <= 50 THEN "21-50 citations"
    ELSE "51+ citations"

\* the dict citation_ranges after the loop `for article in articles`
citation_ranges(articles) ==
    LET names == {RangeNames[k] : k \in 1..Len(RangeNames)}
        F[i \in 0..Len(articles)] ==
            IF i = 0 THEN [name \in names |-> 0]
            ELSE [F[i - 1] EXCEPT ![RangeOf(articles[i].citation_count)] = @ + 1]
    IN  IF \E i \in 1..Len(articles) : ~IsNum(articles[i].citation_count)
        THEN Raise("TypeError")
        ELSE F[Len(articles)]

\* the number of records the functions of the report are called with
MaxRecords == 3

\* the records the report is made of: a citation count at each bound of the
\* ranges, with and without a year
Records ==
    { Record("10.1/a", "A", 0, None), Record("10.1/b", "B", 1, Num(2019)),
      Record("10.1/c", "C", 5, Num(2020)), Record("", "No title available", 6, Num(2019)),
      Record("10.1/e", "E", 10, None), Record("10.1/f", "F, G", 11, Num(2020)),
      Record("10.1/g", "G", 20, Num(2018)), Record("10.1/h", "H", 21, Num(2019)),
      Record("10.1/i", "I", 50, Num(2020)), Record("10.1/j", "J", 51, Num(2018)),
      Record("10.1/k", "K", 75, None) }

ReportInit ==
    /\ cit_arg \in SeqsUpTo(Records, MaxRecords)
    /\ cit_call = None
    /\ cit_return = None

\* the distribution of generate_report / create_citation_distribution_chart
\* is computed
CallCitationRanges ==
    /\ cit_call = None
    /\ cit_call' = [fn |-> "citation_ranges"]
    /\ cit_return' = citation_ranges(cit_arg)
    /\ UNCHANGED cit_arg

\* a or b
PyOr(a, b) == IF Truthy(a) THEN a ELSE b

\* the text csv.writer writes for a value: str(value), nothing for None
\* (its quoting of a text is undone by the csv reader and left out)
CsvText(v) ==
    CASE v = None -> ""
      [] IsNum(v) -> ToString(v.n)
      [] IsStr(v) -> v.s

\* fieldnames = ['DOI', 'Title', 'Citations', 'Year']
fieldnames == <<"DOI", "Title", "Citations", "Year">>

\* the file export_to_csv writes: the header and a row of texts a record
export_to_csv(articles) ==
    <<fieldnames>> \o
    [i \in 1..Len(articles) |->
        << CsvText(articles[i].doi), CsvText(articles[i].title),
           CsvText(articles[i].citation_count),
           CsvText(PyOr(articles[i].published_year, Str("Unknown"))) >>]

\* the JSON text json.dump writes for a value
JsonDump(v) ==
    CASE v = None -> [json |-> "null"]
      [] IsNum(v) -> [json |-> "number", text |-> ToString(v.n)]
      [] IsStr(v) -> [json |-> "string", text |-> v.s]

\* the file export_to_json writes: an array with an object a record
export_to_json(articles) ==
    [i \in 1..Len(articles) |->
        [doi |-> JsonDump(articles[i].doi), title |-> JsonDump(articles[i].title),
         citation_count |-> JsonDump(articles[i].citation_count),
         published_year |-> JsonDump(articles[i].published_year)]]

\* export_to_csv(articles) has written its file
CallExportToCsv ==
    /\ cit_call = None
    /\ cit_call' = [fn |-> "export_to_csv"]
    /\ cit_return' = export_to_csv(cit_arg)
    /\ UNCHANGED cit_arg

\* export_to_json(articles) has written its file
CallExportToJson ==
    /\ cit_call = None
    /\ cit_call' = [fn |-> "export_to_json"]
    /\ cit_return' = export_to_json(cit_arg)
    /\ UNCHANGED cit_arg

\* the mapping of one key to a value, nothing when the key is left out
Field(key, value) == IF value = Absent THEN <<>> ELSE key :> value

\* a raw item with the given title, published-print and published-online
Item(title, print, online) ==
    Dict(("DOI" :> Str("10.1/x")) @@ Field("title", title)
         @@ Field("published-print", print) @@ Field("published-online", online))

\* the shapes of the title of an item
Titles ==
    { Absent, None, EmptyList, List(<<Str("A")>>), List(<<Str("A"), Str("B")>>),
      Str("Bare"), Str(""), Num(7), List(<<None>>) }

\* the shapes of a date field of an item, the year being `year` where it has one
Dates(year) ==
    { Absent, None, EmptyDict,
      Dict("date-parts" :> None),
      Dict("date-parts" :> EmptyList),
      Dict("date-parts" :> List(<<EmptyList>>)),
      Dict("date-parts" :> List(<<List(<<None>>)>>)),
      Dict("date-parts" :> List(<<List(<<Num(year)>>)>>)),
      DateParts(year) }

Items == {Item(title, print, online) :
             title \in Titles, print \in Dates(2020), online \in Dates(2019)}

NormalizeInit ==
    /\ cit_arg \in Items
    /\ cit_call = None
    /\ cit_return = None

\* get_title(article) returns
CallGetTitle ==
    /\ cit_call = None
    /\ cit_call' = [fn |-> "get_title"]
    /\ cit_return' = get_title(cit_arg)
    /\ UNCHANGED cit_arg

\* get_published_year(article) returns or raises
CallGetPublishedYear ==
    /\ cit_call = None
    /\ cit_call' = [fn |-> "get_published_year"]
    /\ cit_return' = get_published_year(cit_arg)
    /\ UNCHANGED cit_arg

\* articles_with_years = [a for a in articles if a["published_year"]]
articles_with_years(articles) ==
    SelectSeq(articles, LAMBDA a : Truthy(a.published_year))

\* year_stats after the loop over the records: the count and the citations
\* of each year, and the years in the order they were first met (the order
\* of the keys of the dict)
year_stats(articles) ==
    LET F[i \in 0..Len(articles)] ==
            IF i = 0 THEN [keys |-> <<>>, stats |-> <<>>]
            ELSE LET before == F[i - 1]
                     year == articles[i].published_year.n
                     cites == articles[i].citation_count.n
                 IN  IF year \in DOMAIN before.stats
                     THEN [keys |-> before.keys,
                           stats |-> [before.stats EXCEPT ![year] =
                                         [count |-> @.count + 1,
                                          total_citations |-> @.total_citations + cites]]]
                     ELSE [keys |-> Append(before.keys, year),
                           stats |-> (year :> [count |-> 1, total_citations |-> cites])
                                        @@ before.stats]
    IN  F[Len(articles)]

\* the keys as the dict holds them, not sorted (the mutant of sorted)
insertion_order(keys) == keys

\* sorted(year_stats.keys())
sorted(keys) ==
    LET S == {keys[i] : i \in 1..Len(keys)}
        RECURSIVE Ascending(_)
        Ascending(R) ==
            IF R = {} THEN <<>>
            ELSE LET m == CHOOSE x \in R : \A y \in R : x <= y
                 IN  <<m>> \o Ascending(R \ {m})
    IN  Ascending(S)

\* the years, counts and citations of create_year_chart, and the lines of the
\* year-based analysis of generate_report: one row a year
year_rollup(articles) ==
    LET ys == year_stats(articles_with_years(articles))
        years == sorted(ys.keys)
    IN  [k \in 1..Len(years) |->
            [year |-> years[k], count |-> ys.stats[years[k]].count,
             total_citations |-> ys.stats[years[k]].total_citations]]

\* the rollup by year of generate_report / create_year_chart is computed
CallYearRollup ==
    /\ cit_call = None
    /\ cit_call' = [fn |-> "year_rollup"]
    /\ cit_return' = year_rollup(cit_arg)
    /\ UNCHANGED cit_arg

----------------------------------------------------------------------------
(* The aggregation functions called on their own *)

AggIdle == agg_df = None /\ agg_call = None /\ agg_return = None

CitIdle == cit_arg = None /\ cit_call = None /\ cit_return = None

\* the number of rows of the article datasets the top 5 is taken of
MaxRows == 6

\* the (PDF, Abstract Views) cells the rows are made of
RowKinds == { <<Num(2), Num(1)>>, <<Num(1), NaN>>, <<NaN, Num(1)>> }

ArticleData(kinds) ==
    DataFrame(articles_column_configs[1], RangeIndex(Len(kinds)),
              [i \in 1..Len(kinds) |->
                  ArticleRow(i, "t", Num(9), kinds[i][2], Num(0), kinds[i][1], Num(0), Num(0))])

ArticleDatasets == {ArticleData(kinds) : kinds \in SeqsUpTo(RowKinds, MaxRows)}

Top5Init ==
    /\ agg_df \in ArticleDatasets
    /\ agg_call = None
    /\ agg_return = None

\* a call article_top5_downloads(df, button) returns
CallTop5(button) ==
    /\ agg_call = None
    /\ agg_call' = [fn |-> "article_top5_downloads", button |-> button]
    /\ agg_return' \in article_top5_downloads(agg_df, button)
    /\ UNCHANGED agg_df

\* the number of distinct countries of the geographic datasets
MaxCountries == 11

\* the Unique cell of the row of the i-th of k countries
UniqueCell(pattern, i, k) ==
    CASE pattern = "distinct" -> Num(i)
      [] pattern = "pairs" -> Num((i + 1) \div 2)
      [] pattern = "sparse" -> IF i <= 2 THEN NaN ELSE Num(k - i)

\* a geographic dataset of k countries, one row a country from the last to
\* the first, followed by the extra rows asked for: a second row of the first
\* country, a row of the last country without a Unique value, a row without
\* a Country
GeoData(k, pattern, extras) ==
    LET main == [j \in 1..k |->
                    GeoRow("c", "r", Str(Collation[k + 1 - j]), Num(k + 2),
                           UniqueCell(pattern, k + 1 - j, k))]
        second == IF "second" \in extras /\ k > 0
                  THEN <<GeoRow("d", "r", Str(Collation[1]), Num(1), Num(4))>> ELSE <<>>
        nounique == IF "nounique" \in extras /\ k > 0
                    THEN <<GeoRow("e", "r", Str(Collation[k]), Num(1), NaN)>> ELSE <<>>
        nocountry == IF "nocountry" \in extras
                     THEN <<GeoRow("f", "r", NaN, Num(1), Num(7))>> ELSE <<>>
        rows == main \o second \o nounique \o nocountry
    IN  DataFrame(geo_column_configs[1], RangeIndex(Len(rows)), rows)

GeoDatasets ==
    {GeoData(k, pattern, extras) :
        k \in 0..MaxCountries, pattern \in {"distinct", "pairs", "sparse"},
        extras \in SUBSET {"second", "nounique", "nocountry"}}

GeoInit ==
    /\ agg_df \in GeoDatasets
    /\ agg_call = None
    /\ agg_return = None

\* a call geo_overview(df) returns
CallGeoOverview ==
    /\ agg_call = None
    /\ agg_call' = [fn |-> "geo_overview"]
    /\ agg_return' \in geo_overview(agg_df)
    /\ UNCHANGED agg_df

----------------------------------------------------------------------------
(* The specifications *)

\* validate_csv on every header and profile list of the bounds
ValNext == CallValidate /\ UNCHANGED <<sessVars, aggVars, fetchVars, citVars, uiVars>>

InitValidate == ValInit /\ SessIdle /\ AggIdle /\ FetchIdle /\ CitIdle /\ UiIdle

SpecValidate == InitValidate /\ [][ValNext]_vars

\* the session of a user of the upload pages and the statistics pages
SessNext ==
    /\ \/ \E a \in ArticleFiles \cup {None}, g \in GeoFiles \cup {None} : UploadPage(a, g)
       \/ VisitorStatisticsPage
       \/ ExploreViewsAndDownloadsPage
       \/ \E a \in ArticleFiles \cup {None} : LegacyUploadPage(a)
    /\ UNCHANGED <<valVars, aggVars, fetchVars, citVars, uiVars>>

Init == SessInit /\ ValIdle /\ AggIdle /\ FetchIdle /\ CitIdle /\ UiIdle

Spec == Init /\ [][SessNext]_vars

\* article_top5_downloads on every dataset of the bounds
Top5Next ==
    /\ \E button \in Buttons : CallTop5(button)
    /\ UNCHANGED <<valVars, sessVars, fetchVars, citVars, uiVars>>

InitTop5 == Top5Init /\ ValIdle /\ SessIdle /\ FetchIdle /\ CitIdle /\ UiIdle

SpecTop5 == InitTop5 /\ [][Top5Next]_vars

\* geo_overview on every dataset of the bounds
GeoNext == CallGeoOverview /\ UNCHANGED <<valVars, sessVars, fetchVars, citVars, uiVars>>

InitGeo == GeoInit /\ ValIdle /\ SessIdle /\ FetchIdle /\ CitIdle /\ UiIdle

SpecGeo == InitGeo /\ [][GeoNext]_vars

\* one call of fetch_all_articles against every behaviour of the API
FetchNext ==
    /\ \/ \E response \in Answers(api_log) : FetchPage(response)
       \/ Return
    /\ UNCHANGED <<valVars, sessVars, aggVars, citVars, uiVars>>

InitFetch == FetchInit /\ ValIdle /\ SessIdle /\ AggIdle /\ CitIdle /\ UiIdle

SpecFetch == InitFetch /\ [][FetchNext]_vars

\* successive calls of fetch_all_articles by one caller
CallsNext ==
    /\ \/ \E response \in SmallResponses : FetchPage(response)
       \/ Return
       \/ CallAgain
    /\ UNCHANGED <<valVars, sessVars, aggVars, citVars, uiVars>>

InitCalls == FetchInit /\ ValIdle /\ SessIdle /\ AggIdle /\ CitIdle /\ UiIdle

SpecCalls == InitCalls /\ [][CallsNext]_vars

\* the functions of the citation report on every sequence of records of the bounds
ReportNext ==
    /\ \/ CallCitationRanges
       \/ CallExportToCsv
       \/ CallExportToJson
       \/ CallYearRollup
    /\ UNCHANGED <<valVars, sessVars, aggVars, fetchVars, uiVars>>

InitReport == ReportInit /\ ValIdle /\ SessIdle /\ AggIdle /\ FetchIdle /\ UiIdle

SpecReport == InitReport /\ [][ReportNext]_vars

\* One call of fetch_all_articles that keeps running: the loop takes its next
\* turn, and the function returns, whenever it can (the calling thread is
\* blocked in nothing but the request, which the API answers).
LiveNext ==
    /\ \/ \E response \in SmallResponses \cup {OtherCursorPage} : FetchPage(response)
       \/ Return
    /\ UNCHANGED <<valVars, sessVars, aggVars, citVars, uiVars>>

SpecFetchLive == InitFetch /\ [][LiveNext]_vars /\ WF_vars(LiveNext)

\* get_title and get_published_year on every item of the shapes above
NormalizeNext ==
    /\ \/ CallGetTitle
       \/ CallGetPublishedYear
    /\ UNCHANGED <<valVars, sessVars, aggVars, fetchVars, uiVars>>

InitNormalize == NormalizeInit /\ ValIdle /\ SessIdle /\ AggIdle /\ FetchIdle /\ UiIdle

SpecNormalize == InitNormalize /\ [][NormalizeNext]_vars

\* fetch_all_articles of fetch_crossref.py and of the page, called with the
\* same ISSN against the same behaviour of the API
BothNext ==
    /\ \/ \E response \in Answers(api_log) : BothFetchPage(response)
       \/ Return /\ UNCHANGED uiVars
       \/ UiReturn /\ UNCHANGED fetchVars
    /\ UNCHANGED <<valVars, sessVars, aggVars, citVars>>

InitBoth == FetchInit /\ UiEntry /\ ValIdle /\ SessIdle /\ AggIdle /\ CitIdle

SpecBoth == InitBoth /\ [][BothNext]_vars

----------------------------------------------------------------------------
(* What the claims are stated with *)

IsDataFrame(v) == DOMAIN v = {"columns", "index", "rows"}

\* the last element of a non-empty sequence
Last(seq) == seq[Len(seq)]

\* the items and the next cursor a response carries, read off its JSON body
HasMessage(response) ==
    /\ response # ConnectionError
    /\ IsDict(response.body)
    /\ "message" \in DOMAIN response.body.d
    /\ IsDict(response.body.d["message"])

ItemsOf(response) ==
    IF HasMessage(response) /\ "items" \in DOMAIN response.body.d["message"].d
       /\ IsList(response.body.d["message"].d["items"])
    THEN response.body.d["message"].d["items"].l
    ELSE <<>>

CursorOf(response) ==
    IF HasMessage(response) /\ "next-cursor" \in DOMAIN response.body.d["message"].d
    THEN response.body.d["message"].d["next-cursor"]
    ELSE None

StatusFailure(response) ==
    IF response = ConnectionError THEN FALSE ELSE response.status >= 400

\* a success status with a body that is no JSON document, no JSON object, or
\* an object whose message is no object or whose items are no list
MalformedBody(response) ==
    IF response = ConnectionError THEN FALSE
    ELSE /\ response.status < 400
         /\ \/ response.body = NotJson
            \/ ~IsDict(response.body)
            \/ "message" \in DOMAIN response.body.d /\ ~IsDict(response.body.d["message"])
            \/ /\ HasMessage(response)
               /\ "items" \in DOMAIN response.body.d["message"].d
               /\ ~IsList(response.body.d["message"].d["items"])

\* the page was requested, decoded and normalized without any exception
FetchedWithoutError(response) ==
    /\ response # ConnectionError
    /\ ~StatusFailure(response)
    /\ ~MalformedBody(response)
    /\ \A i \in 1..Len(ItemsOf(response)) : ~IsExc(processed_article(ItemsOf(response)[i]))

NonEmptyCursor(response) ==
    IsStr(CursorOf(response)) /\ CursorOf(response) # Str("")

Continues(response) ==
    /\ FetchedWithoutError(response)
    /\ Len(ItemsOf(response)) > 0
    /\ NonEmptyCursor(response)

\* the records of the first k pages of a log, in arrival order
RECURSIVE RecordsOfPages(_, _)
RecordsOfPages(log, k) ==
    IF k = 0 THEN <<>>
    ELSE RecordsOfPages(log, k - 1)
            \o [i \in 1..Len(ItemsOf(log[k])) |-> processed_article(ItemsOf(log[k])[i])]

RECURSIVE ItemCount(_, _)
ItemCount(log, k) ==
    IF k = 0 THEN 0 ELSE ItemCount(log, k - 1) + Len(ItemsOf(log[k]))

Gets == SelectSeq(events, LAMBDA e : e.e = "get")
Delays == SelectSeq(events, LAMBDA e : e.e = "sleep")

\* the value cached under a key of st.session_state, None without the key
Cached(ss, key) == IF key \in DOMAIN ss THEN ss[key] ELSE None

Flag(ss, key) == IF key \in DOMAIN ss THEN ss[key] ELSE FALSE

HeaderMatches(df, configs) ==
    /\ df # None
    /\ \E i \in 1..Len(configs) : df.columns = configs[i]

RejectionMessages == {"error: not a CSV file", "error: reading CSV file"}

Rejected(key) == \E m \in RejectionMessages : <<key, m>> \in page.msgs

\* the sum of Unique over the rows of a country, a null counted as 0
RECURSIVE BruteSum(_, _, _)
BruteSum(df, key, i) ==
    IF i = 0 THEN 0
    ELSE BruteSum(df, key, i - 1)
            + (IF df.rows[i][3] = key /\ IsNum(df.rows[i][5]) THEN df.rows[i][5].n ELSE 0)

\* the Country cells of a geographic dataset
CountriesOf(df) == {df.rows[i][3] : i \in 1..Len(df.rows)}

GeoReturned == agg_call # None /\ agg_call.fn = "geo_overview" /\ IsDataFrame(agg_return)

Top5Returned ==
    agg_call # None /\ agg_call.fn = "article_top5_downloads" /\ IsDataFrame(agg_return)

\* the column the button of a call article_top5_downloads stands for
SortColumn == IF agg_call.button = "File Downloads" THEN "PDF" ELSE "Abstract Views"

----------------------------------------------------------------------------
(* The claims *)

\* C1: validate_csv returns True if and only if the header equals some profile
\* of the list element for element and in the same order; the English and the
\* Dutch Articles headers are Valid against the Articles profiles, and the
\* header [ID, Name, Total] is Invalid.
ValidateIffSomeProfile ==
    v_return # None =>
        /\ v_return.b <=> \E i \in 1..Len(v_column_lists) : v_columns = v_column_lists[i]
        /\ v_column_lists = articles_column_configs
              /\ v_columns \in {articles_column_configs[1], articles_column_configs[2]}
              => v_return.b
        /\ v_column_lists = articles_column_configs /\ v_columns = ShortHeader => ~v_return.b

\* the Dutch header has been validated against the Articles profiles
DutchHeaderValidated ==
    /\ v_return = Bool(TRUE)
    /\ v_columns = articles_column_configs[2]
    /\ v_column_lists = articles_column_configs

\* C2: a page request is issued after a page only if that page was fetched
\* without error, had at least one item and carried a non-empty next cursor,
\* and the run ends (no request is issued any more) only after a page of
\* which that is not true.
RequestIffPageContinues ==
    [][ /\ events' # events => (api_log = <<>> \/ Continues(Last(api_log)))
        /\ pc' = "returned" => (api_log' # <<>> /\ ~Continues(Last(api_log')))
        /\ pc = "returned" => events' = events ]_vars

\* a second request has been issued after a page that continues, and a run
\* has ended after a page with a cursor but without items
SecondRequestIssued ==
    /\ Len(Gets) = 2
    /\ Continues(api_log[1])
    /\ pc = "returned"
    /\ NonEmptyCursor(Last(api_log))
    /\ Len(ItemsOf(Last(api_log))) = 0

\* C3: when the request for page k fails with a non-success status or a
\* malformed body, fetch_all_articles returns exactly the records of the
\* pages 1..k-1 in arrival order.
FailureKeepsEarlierPages ==
    (pc = "returned" /\ api_log # <<>>
        /\ (StatusFailure(Last(api_log)) \/ MalformedBody(Last(api_log))))
    => /\ Failed
       /\ returned = RecordsOfPages(api_log, Len(api_log) - 1)

\* the third page failed with a status 500 after two pages of records
ThirdPageFailed ==
    /\ pc = "returned"
    /\ Len(api_log) = 3
    /\ StatusFailure(api_log[3])
    /\ Len(returned) >= 2

\* C4: what fetch_all_articles returns tells a run that failed from a run
\* that ended in Done: two calls that return the same records either both
\* failed or both did not.
ReturnTellsFailure ==
    (pc = "returned" /\ prev_call # NoCall /\ prev_call.returned = returned)
    => prev_call.failed = Failed

\* C5: a run that ends in Done after N pages has made N requests, returns the
\* records of the N pages in arrival order, as many as the pages had items, and
\* has slept N-1 times, once between each two consecutive requests; the two
\* pages of the scenario give PageRows + LastPageRows records, 2 requests and
\* 1 delay.
DoneRunCounts ==
    (pc = "returned" /\ ~Failed) =>
        LET N == Len(api_log)
        IN  /\ N >= 1
            /\ page_count = N
            /\ Len(Gets) = N
            /\ Len(Delays) = N - 1
            /\ Len(events) = 2 * N - 1
            /\ \A i \in 1..Len(events) :
                  events[i].e = IF i % 2 = 1 THEN "get" ELSE "sleep"
            /\ Len(returned) = ItemCount(api_log, N)
            /\ returned = RecordsOfPages(api_log, N)
            /\ api_log = <<ScenarioPage1, ScenarioPage2>> =>
                  /\ Len(returned) = PageRows + LastPageRows
                  /\ Len(Gets) = 2
                  /\ Len(Delays) = 1

\* the run of the scenario has ended in Done
ScenarioDone ==
    /\ pc = "returned"
    /\ ~Failed
    /\ api_log = <<ScenarioPage1, ScenarioPage2>>

\* C6: the validity flag of a report kind is true if and only if the dataset
\* cached for that kind has a header that matches one of the kind's profiles.
FlagIffHeaderMatches ==
    /\ Flag(session_state, "df_valid")
          <=> HeaderMatches(Cached(session_state, "df"), articles_column_configs)
    /\ Flag(session_state, "geodf_valid")
          <=> HeaderMatches(Cached(session_state, "geodf"), geo_column_configs)

\* C7: a run of the upload page that rejects the file of an uploader, for its
\* name or because it cannot be parsed, leaves that kind's dataset and flag as
\* they were, and the other kind's too unless its uploader got another file.
RejectedUploadChangesNothing ==
    [][ /\ (page'.name = "Upload" /\ Rejected("df")')
            => /\ Cached(session_state', "df") = Cached(session_state, "df")
               /\ Flag(session_state', "df_valid") = Flag(session_state, "df_valid")
               /\ csv_file_geo' = csv_file_geo
                     => /\ Cached(session_state', "geodf") = Cached(session_state, "geodf")
                        /\ Flag(session_state', "geodf_valid")
                              = Flag(session_state, "geodf_valid")
        /\ (page'.name = "Upload" /\ Rejected("geodf")')
            => /\ Cached(session_state', "geodf") = Cached(session_state, "geodf")
               /\ Flag(session_state', "geodf_valid") = Flag(session_state, "geodf_valid")
               /\ csv_file' = csv_file
                     => /\ Cached(session_state', "df") = Cached(session_state, "df")
                        /\ Flag(session_state', "df_valid") = Flag(session_state, "df_valid")
      ]_vars

\* a file has been rejected while datasets of both kinds were cached
RejectedWithDataCached ==
    /\ page.name = "Upload"
    /\ Rejected("df")
    /\ Cached(session_state, "df") # None
    /\ Cached(session_state, "geodf") # None

\* C8: the percentage of a country's visitors is 0 whenever the total is 0,
\* and computing it never divides by zero.
PercentageZeroOfZeroTotal ==
    (page.name = "Visitor Statistics" /\ page.branch = "stats" /\ page.total_unique = Num(0))
    => /\ page.exc = None
       /\ page.percentage = Num(0)

\* C9: article_top5_downloads returns the first min(5, rows) rows of the
\* dataset sorted by the chosen column in descending order, nulls last, rows of
\* equal sort value in their original order.
Top5InStableOrder ==
    Top5Returned =>
        LET vals == Column(agg_df, SortColumn)
            order == StableDescending(vals, NonNull(vals)) \o AscendingPositions(Nulls(vals))
            n == Min(TopArticles, Len(agg_df.rows))
        IN  /\ Len(agg_return.rows) = n
            /\ \A i \in 1..n :
                  /\ agg_return.index[i] = agg_df.index[order[i]]
                  /\ agg_return.rows[i] = agg_df.rows[order[i]]

\* C10: every Country value of the input is the key of exactly one group of
\* the output of geo_overview, and each group's sum is the sum of Unique over
\* the input rows of that country, nulls counted as 0.
GeoGroupsPartitionInput ==
    GeoReturned =>
        /\ \A c \in CountriesOf(agg_df) :
              Cardinality({g \in 1..Len(agg_return.rows) : agg_return.rows[g][1] = c}) = 1
        /\ \A g \in 1..Len(agg_return.rows) :
              agg_return.rows[g][2] = Num(BruteSum(agg_df, agg_return.rows[g][1], Len(agg_df.rows)))

\* C10 as amended: the output holds the groups of the non-null Country values,
\* each at most once, all of them when they are at most TopCountries and
\* otherwise TopCountries of them with no omitted group of a larger sum than a
\* group that is kept; each group's sum is the sum of Unique over the input
\* rows of that country, nulls counted as 0.
GeoTopGroupsOfPartition ==
    GeoReturned =>
        LET keys == CountriesOf(agg_df) \ {NaN}
            kept == {agg_return.rows[g][1] : g \in 1..Len(agg_return.rows)}
            Sum(c) == BruteSum(agg_df, c, Len(agg_df.rows))
        IN  /\ kept \subseteq keys
            /\ \A c \in kept :
                  Cardinality({g \in 1..Len(agg_return.rows) : agg_return.rows[g][1] = c}) = 1
            /\ Len(agg_return.rows) = Min(TopCountries, Cardinality(keys))
            /\ \A c \in keys \ kept : \A d \in kept : Sum(c) <= Sum(d)
            /\ \A g \in 1..Len(agg_return.rows) :
                  agg_return.rows[g][2] = Num(Sum(agg_return.rows[g][1]))

\* geo_overview has returned the groups of a dataset of more countries than
\* it keeps, with a row without a Country and a country of two rows
GeoTruncated ==
    /\ GeoReturned
    /\ Cardinality(CountriesOf(agg_df) \ {NaN}) > TopCountries
    /\ NaN \in CountriesOf(agg_df)
    /\ Len(agg_return.rows) = TopCountries
    /\ \E g \in 1..Len(agg_return.rows) :
          /\ agg_return.rows[g][1] = Str(Collation[1])
          /\ Cardinality({i \in 1..Len(agg_df.rows) : agg_df.rows[i][3] = Str(Collation[1])}) = 2

\* the range a key of citation_ranges declares
InDeclaredRange(name, n) ==
    CASE name = "0 citations" -> n = 0
      [] name = "1-5 citations" -> n \in 1..5
      [] name = "6-10 citations" -> n \in 6..10
      [] name = "11-20 citations" -> n \in 11..20
      [] name = "21-50 citations" -> n \in 21..50
      [] name = "51+ citations" -> n >= 51

RECURSIVE SumRanges(_, _)
SumRanges(ranges, k) ==
    IF k = 0 THEN 0 ELSE ranges[RangeNames[k]] + SumRanges(ranges, k - 1)

RangesReturned == cit_call # None /\ cit_call.fn = "citation_ranges"

\* C11: the distribution counts every record in exactly one range, the one
\* whose declared bounds contain the record's citation count, so that the
\* counts of the ranges add up to the number of records.
RangesPartitionRecords ==
    RangesReturned =>
        /\ \A i \in 1..Len(cit_arg) :
              Cardinality({k \in 1..Len(RangeNames) :
                              InDeclaredRange(RangeNames[k], cit_arg[i].citation_count.n)}) = 1
        /\ \A k \in 1..Len(RangeNames) :
              cit_return[RangeNames[k]] =
                  Cardinality({i \in 1..Len(cit_arg) :
                                  InDeclaredRange(RangeNames[k], cit_arg[i].citation_count.n)})
        /\ SumRanges(cit_return, Len(RangeNames)) = Len(cit_arg)

\* the distribution of three records whose counts are upper bounds of ranges
RangesOfBounds ==
    /\ RangesReturned
    /\ Len(cit_arg) = 3
    /\ {cit_arg[i].citation_count.n : i \in 1..3} = {5, 10, 50}
    /\ cit_return["1-5 citations"] = 1
    /\ cit_return["21-50 citations"] = 1

\* the numbers that occur in the records
Numbers ==
    UNION {{r.citation_count.n} \cup (IF IsNum(r.published_year) THEN {r.published_year.n} ELSE {})
              : r \in Records}

\* a cell of a numeric column read back: the number a numeral stands for,
\* and the text itself when it is no numeral
ReadNumber(text) ==
    IF \E n \in Numbers : ToString(n) = text
    THEN Num(CHOOSE n \in Numbers : ToString(n) = text)
    ELSE Str(text)

\* the value a JSON text stands for (json.load)
JsonLoad(j) ==
    CASE j.json = "null" -> None
      [] j.json = "number" -> ReadNumber(j.text)
      [] j.json = "string" -> Str(j.text)

\* the (DOI, title, citation count, year) tuples of a sequence of records
TuplesOf(articles) ==
    {<<articles[i].doi, articles[i].title, articles[i].citation_count,
       articles[i].published_year>> : i \in 1..Len(articles)}

\* the tuples read back from a CSV export: the rows under the header, the
\* Citations and Year columns read as numbers
TuplesOfCsv(file) ==
    {<<Str(file[i][1]), Str(file[i][2]), ReadNumber(file[i][3]), ReadNumber(file[i][4])>> :
        i \in 2..Len(file)}

\* the tuples read back from a JSON export
TuplesOfJson(file) ==
    {<<JsonLoad(file[i].doi), JsonLoad(file[i].title), JsonLoad(file[i].citation_count),
       JsonLoad(file[i].published_year)>> : i \in 1..Len(file)}

\* C12: the tuples read back from the CSV export and from the JSON export
\* of a sequence of records are both the tuples of the records themselves,
\* whether a record has a year or not.
ExportsReadBackEqual ==
    /\ cit_call # None /\ cit_call.fn = "export_to_csv" =>
          TuplesOfCsv(cit_return) = TuplesOf(cit_arg)
    /\ cit_call # None /\ cit_call.fn = "export_to_json" =>
          TuplesOfJson(cit_return) = TuplesOf(cit_arg)

\* C13: the first request of a run carries the cursor "*", every later
\* request carries the next-cursor of the response to the request before it,
\* and the filter issn:<identifier>, the page size 1000 and the selected
\* fields are the same in every request.
RequestsFollowCursor ==
    /\ Len(Gets) = Len(api_log)
    /\ \A k \in 1..Len(Gets) :
          /\ Gets[k].params.cursor = IF k = 1 THEN Str("*") ELSE CursorOf(api_log[k - 1])
          /\ Gets[k].params.filter = <<"issn:", issn>>
          /\ Gets[k].params.rows = "1000"
          /\ Gets[k].params.select
                = "DOI,title,is-referenced-by-count,published-print,published-online"

\* three requests have been made, the second and the third with the differing
\* cursors of the first and the second page
ThirdRequestCarriesCursor ==
    /\ Len(Gets) = 3
    /\ Gets[1].params.cursor = Str("*")
    /\ CursorOf(api_log[1]) = Str("abc")
    /\ CursorOf(api_log[2]) = Str("def")
    /\ Gets[2].params.cursor = Str("abc")
    /\ Gets[3].params.cursor = Str("def")

\* a page that ends the run: it has failed, has no items or has no next cursor
Stops(response) == ~Continues(response)

\* C14: once the API has answered a request with a page that has no items,
\* has no next cursor or fails, the run terminates, in Done or in Failed, and
\* it stops at the first such page: no page before the last one answered is
\* a page that ends the run.
TerminatesAtFirstStop ==
    /\ [](\A k \in 1..(Len(api_log) - 1) : ~Stops(api_log[k]))
    /\ [](pc = "returned" => api_log # <<>> /\ Stops(Last(api_log)))
    /\ (api_log # <<>> /\ Stops(Last(api_log))) ~> (pc = "returned")

\* a run has ended in Done at its third page, the first without a next cursor
StoppedAtThirdPage ==
    /\ pc = "returned"
    /\ ~Failed
    /\ Len(api_log) = 3
    /\ Len(ItemsOf(api_log[3])) > 0
    /\ ~NonEmptyCursor(api_log[3])

\* the fields of a citation record
RecordFields == {"doi", "title", "citation_count", "published_year"}

\* C15: no failure while requesting, decoding or normalizing a page leaves
\* fetch_all_articles as an exception: after a page that failed the loop has
\* ended with the failure shown, and the call returns a list of records.
FailureNeverEscapes ==
    /\ pc # "raised"
    /\ (pc = "loop" /\ api_log # <<>> /\ ~FetchedWithoutError(Last(api_log)))
          => (~Truthy(has_more) /\ Failed)
    /\ pc = "returned" =>
          \A i \in 1..Len(returned) : DOMAIN returned[i] = RecordFields

\* a run has returned the records it had made before it met an item that is
\* no object
ReturnedAfterBadItem ==
    /\ pc = "returned"
    /\ Failed
    /\ Last(shown).error = Raise("AttributeError")
    /\ Len(returned) >= 1

\* the value an item has under a key, Absent without the key
Raw(article, key) == IF key \in DOMAIN article.d THEN article.d[key] ELSE Absent

\* a date field yields a value when it is an object whose date-parts is a
\* list with a first entry that has a first element, and that is no null
YieldsYear(article, date_field) ==
    LET field == Raw(article, date_field)
    IN  /\ IsDict(field)
        /\ "date-parts" \in DOMAIN field.d
        /\ IsList(field.d["date-parts"])
        /\ Len(field.d["date-parts"].l) > 0
        /\ IsList(field.d["date-parts"].l[1])
        /\ Len(field.d["date-parts"].l[1].l) > 0
        /\ field.d["date-parts"].l[1].l[1] # None

\* the first element of the first entry of the date-parts of a date field
FirstOfFirst(article, date_field) == article.d[date_field].d["date-parts"].l[1].l[1]

YearReturned == cit_call # None /\ cit_call.fn = "get_published_year"

\* C16: get_published_year returns the year of published-print when that
\* field yields one, otherwise the year of published-online when that field
\* yields one, and None only when neither does; the year is the first element
\* of the first entry of the field's date-parts.
YearFallsBackToOnline ==
    YearReturned =>
        cit_return =
            IF YieldsYear(cit_arg, "published-print")
            THEN FirstOfFirst(cit_arg, "published-print")
            ELSE IF YieldsYear(cit_arg, "published-online")
            THEN FirstOfFirst(cit_arg, "published-online")
            ELSE None

TitleReturned == cit_call # None /\ cit_call.fn = "get_title"

\* C17: get_title returns the first element of a title that is a non-empty
\* list, the title itself when it is a string, and "No title available" in
\* every other case (no title, a null, an empty list, any other value).
TitleNormalized ==
    TitleReturned =>
        LET title == Raw(cit_arg, "title")
        IN  cit_return =
                IF IsList(title) /\ Len(title.l) > 0 THEN title.l[1]
                ELSE IF IsStr(title) THEN title
                ELSE Str("No title available")

\* the title of an item whose title is null has been replaced
NullTitleReplaced ==
    /\ TitleReturned
    /\ Raw(cit_arg, "title") = None
    /\ cit_return = Str("No title available")

\* the positions of the records that have a year
WithYear(articles) == {i \in 1..Len(articles) : articles[i].published_year # None}

\* the citations of the records at the positions S
RECURSIVE CitationsOf(_, _)
CitationsOf(articles, S) ==
    IF S = {} THEN 0
    ELSE LET i == CHOOSE x \in S : TRUE
         IN  articles[i].citation_count.n + CitationsOf(articles, S \ {i})

RECURSIVE SumCounts(_, _)
SumCounts(rollup, k) == IF k = 0 THEN 0 ELSE rollup[k].count + SumCounts(rollup, k - 1)

RollupReturned == cit_call # None /\ cit_call.fn = "year_rollup"

\* C18: the rollup by year has one group for each distinct year of the
\* records that have a year and none for the others, gives each group the
\* number of its records and the sum of their citation counts, lists the
\* groups by ascending year, and its counts add up to the number of records
\* that have a year.
RollupGroupsByYear ==
    RollupReturned =>
        LET in == WithYear(cit_arg)
            Of(year) == {i \in in : cit_arg[i].published_year.n = year}
        IN  /\ {cit_return[k].year : k \in 1..Len(cit_return)}
                  = {cit_arg[i].published_year.n : i \in in}
            /\ \A k, l \in 1..Len(cit_return) :
                  k < l => cit_return[k].year < cit_return[l].year
            /\ \A k \in 1..Len(cit_return) :
                  /\ cit_return[k].count = Cardinality(Of(cit_return[k].year))
                  /\ cit_return[k].total_citations = CitationsOf(cit_arg, Of(cit_return[k].year))
            /\ SumCounts(cit_return, Len(cit_return)) = Cardinality(in)

\* the rollup of a record of 2020, a record without a year and a record of
\* 2018, in that order
RollupOfMixedYears ==
    /\ RollupReturned
    /\ Len(cit_arg) = 3
    /\ cit_arg[1].published_year = Num(2020)
    /\ cit_arg[2].published_year = None
    /\ cit_arg[3].published_year = Num(2018)
    /\ Len(cit_return) = 2
    /\ cit_return[1].year = 2018

\* a statistics page is displayed with its aggregates computed
StatsShown(name) == page.name = name /\ page.branch = "stats"

\* C19: a dataset that validate_csv accepts can be aggregated: no aggregation
\* function fails on a missing column when the cached dataset has the header
\* of one of the profiles of its report, the Dutch ones included.
ValidDatasetAggregates ==
    /\ (StatsShown("Explore Views and Downloads")
           /\ HeaderMatches(Cached(session_state, "df"), articles_column_configs))
          => page.exc # Raise("KeyError")
    /\ (StatsShown("Visitor Statistics")
           /\ HeaderMatches(Cached(session_state, "geodf"), geo_column_configs))
          => page.exc # Raise("KeyError")

\* C20: a statistics page computes aggregates only over a cached dataset that
\* is not null and whose header matches a profile of the page's report kind;
\* otherwise it shows the warning and computes nothing.
StatsOnlyOverValidData ==
    /\ page.name = "Explore Views and Downloads" =>
          (page.branch = "stats"
              <=> HeaderMatches(Cached(session_state, "df"), articles_column_configs))
    /\ page.name = "Visitor Statistics" =>
          (page.branch = "stats"
              <=> HeaderMatches(Cached(session_state, "geodf"), geo_column_configs))


\* the sum, over the distinct countries of df, of filter_visitors(df, country)
RECURSIVE SumOverCountries(_, _)
SumOverCountries(df, countries) ==
    IF countries = {} THEN 0
    ELSE LET c == CHOOSE x \in countries : TRUE
         IN  filter_visitors(df, c).n + SumOverCountries(df, countries \ {c})

\* the Visitor Statistics page has displayed a country's count and percentage
CountryShown == StatsShown("Visitor Statistics") /\ page.exc = None /\ IsNum(page.number)

\* C21: on the Visitor Statistics page the denominator total_unique equals the
\* sum over the distinct countries of the dataset of filter_visitors, so that
\* the displayed country's count is at most the total and the exact
\* percentages of the countries (100 * count / total) add up to 100.
TotalIsSumOfCountryCounts ==
    CountryShown =>
        LET geo_df == session_state["geodf"]
            countries == unique_countries(geo_df).countries
        IN  /\ page.total_unique.n = SumOverCountries(geo_df, countries)
            /\ page.number.n <= page.total_unique.n
            /\ 100 * SumOverCountries(geo_df, countries) = 100 * page.total_unique.n


\* the requests and the delays of a sequence of events: the parameters of
\* each request, and each sleep
Traffic(evs) ==
    [k \in 1..Len(evs) |->
        IF evs[k].e = "get" THEN [e |-> "get", params |-> evs[k].params]
        ELSE [e |-> "sleep", seconds |-> evs[k].seconds]]

\* the number of delays among the events
RECURSIVE SleepCount(_)
SleepCount(evs) ==
    IF evs = <<>> THEN 0
    ELSE (IF Head(evs).e = "sleep" THEN 1 ELSE 0) + SleepCount(Tail(evs))

\* C22: called with the same ISSN and given the same responses, the loop of
\* fetch_crossref.py and the loop of the page Citation Information stay in
\* step: after each turn they have issued the same requests with the same
\* cursors and taken the same delays, hold the same records, cursor and
\* has_more and have failed on the same pages with the same errors; each
\* returns when the other can, and they return the same records. The
\* User-Agent of the page's requests is that of fetch_crossref.py when the
\* page is given its e-mail address.
LoopsEquivalent ==
    /\ Traffic(ui_events) = Traffic(events)
    /\ SleepCount(ui_events) = SleepCount(events)
    /\ \A k \in 1..Len(ui_events) :
          (ui_events[k].e = "get" /\ ui_email = "info@openjournals.nl")
             => ui_events[k].headers = HEADERS
    /\ ui_all_articles = all_articles
    /\ ui_cursor = cursor
    /\ ui_has_more = has_more
    /\ ui_page_count = page_count
    /\ ui_shown = shown
    /\ (ui_pc = "raised") <=> (pc = "raised")
    /\ (ui_pc = "returned" /\ pc = "returned") => ui_returned = returned
    /\ ui_pc = "returned" => (pc = "returned" \/ ENABLED Return)
    /\ pc = "returned" => (ui_pc = "returned" \/ ENABLED UiReturn)

\* both loops have returned after a failing run: a first page of records
\* with a cursor, a delay, and a second request that failed
BothReturnedAfterFailure ==
    /\ pc = "returned" /\ ui_pc = "returned"
    /\ Len(ui_returned) > 0
    /\ Len(ui_shown) = 1 /\ ui_shown[1].page = 2
    /\ SleepCount(ui_events) = 1
    /\ Len(ui_events) = 3
    /\ ui_events[3].params.cursor = Str("abc")

====
